---- MODULE Spec2Model ----
(***************************************************************************)
(* State machine of pipeline/state_manager.py: the StateManager class, a   *)
(* versioned snapshot store with branches, an LRU memory cache and Parquet *)
(* spill files in temp_dir.                                                *)
(*                                                                         *)
(* Strings are sequences of tokens.  A token is ":" or "_" (one character  *)
(* each) or a word that holds neither character, so that the f-strings,    *)
(* str.replace, str.startswith and Path.glob of the source act on them as  *)
(* they act on the Python strings.  An Optional value is a set with at     *)
(* most one element ({} is None).                                          *)
(***************************************************************************)
EXTENDS Integers, Sequences, FiniteSets, TLC

VARIABLES
    cache_size,      \* self.cache_size
    branches,        \* self.branches: name -> [forked_from, states]
    active_branch,   \* self.active_branch
    memory_cache,    \* self._memory_cache: state_key -> DataFrame
    access_order,    \* self._access_order: list of state_key, oldest first
    disk,            \* the *.parquet files of temp_dir: file stem -> bytes
    dir_exists,      \* whether temp_dir exists
    last,            \* the last call: operation, arguments, outcome
    universe,        \* the names, ids and datasets the session's calls draw from
    writes,          \* how many commit_state and create_branch calls were made
    committed,       \* every (branch, id, DataFrame) a commit went through with
    scenario,        \* progress of the run through the LRU scenario of commits
    other            \* a second StateManager of the process: its own attributes

vars == <<cache_size, branches, active_branch, memory_cache, access_order,
          disk, dir_exists, last, universe, writes, committed, scenario,
          other>>

(***************************************************************************)
(* Bounds of the model and the inputs the callers draw from.               *)
(***************************************************************************)
MaxCache == 2
MaxWrites == 3

MAIN == <<"main">>
SEP == <<":", ":">>
SAFE == <<"_", "_">>
DF_RAW == <<"df_raw">>

Data == {"d1", "d2"}
Configs == {"c1", "c2"}
IdList == <<DF_RAW, <<"s2">>, <<"s3">>, <<"s4">>, <<"s5">>, <<"s6">>>>

TwoPayloads ==
    {[df |-> "d1", config |-> "c1"], [df |-> "d2", config |-> "c2"]}

\* A session that commits, forks, switches and deletes with plain names.
PlainUniverse ==
    [names |-> {MAIN, <<"b">>},
     ids |-> {DF_RAW, <<"s2">>},
     payloads |-> TwoPayloads,
     max_writes |-> MaxWrites]

\* A session one of whose branch names holds the separator of the state keys.
SeparatorUniverse ==
    [names |-> {MAIN, <<"b">>, <<"b", ":", ":", "x">>},
     ids |-> {DF_RAW},
     payloads |-> TwoPayloads,
     max_writes |-> MaxWrites]

\* A session that commits a run of checkpoints to one branch: enough ids to
\* fill the largest cache and commit two more.
LinearUniverse ==
    [names |-> {MAIN},
     ids |-> {IdList[i] : i \in 1..(MaxCache + 2)},
     payloads |-> {[df |-> "d1", config |-> "c1"]},
     max_writes |-> MaxCache + 2]

\* A session that commits different datasets to one branch and loads them.
ReloadUniverse ==
    [names |-> {MAIN},
     ids |-> {IdList[i] : i \in 1..3},
     payloads |-> TwoPayloads,
     max_writes |-> MaxWrites]

\* A session whose names hold the separator of the spill files: two of its
\* (branch, id) pairs share one file.
CollisionUniverse ==
    [names |-> {MAIN, <<"main", "_", "_", "x">>},
     ids |-> {<<"s1">>, <<"x", "_", "_", "s1">>},
     payloads |-> TwoPayloads,
     max_writes |-> MaxWrites]

\* Two sessions of one process, each with a StateManager() of its own.
SharedUniverse ==
    [names |-> {MAIN},
     ids |-> {DF_RAW, <<"s2">>},
     payloads |-> TwoPayloads,
     max_writes |-> MaxWrites]

\* A session that forks again and again from one checkpoint id.
ForkUniverse ==
    [names |-> {MAIN, <<"b">>},
     ids |-> {DF_RAW},
     payloads |-> TwoPayloads,
     max_writes |-> MaxWrites + 2]

BranchNames == universe.names
StateIds == universe.ids
Payloads == universe.payloads

(***************************************************************************)
(* Python's string and list operations.                                    *)
(***************************************************************************)
RECURSIVE Replace(_)
Replace(s) ==
    IF Len(s) < 2 THEN s
    ELSE IF s[1] = ":" /\ s[2] = ":" THEN SAFE \o Replace(SubSeq(s, 3, Len(s)))
    ELSE <<s[1]>> \o Replace(Tail(s))

StartsWith(s, p) == Len(s) >= Len(p) /\ SubSeq(s, 1, Len(p)) = p

RECURSIVE ListRemove(_, _)
ListRemove(l, x) ==
    IF l = <<>> THEN l
    ELSE IF Head(l) = x THEN Tail(l)
    ELSE <<Head(l)>> \o ListRemove(Tail(l), x)

InList(l, x) == \E i \in 1..Len(l) : l[i] = x

RECURSIVE ListRemoveAll(_, _)
ListRemoveAll(l, ks) ==
    IF l = <<>> THEN l
    ELSE IF Head(l) \in ks THEN ListRemoveAll(Tail(l), ks)
    ELSE <<Head(l)>> \o ListRemoveAll(Tail(l), ks)

DictDel(d, ks) == [k \in DOMAIN d \ ks |-> d[k]]
DictSet(d, k, v) == [x \in DOMAIN d \cup {k} |-> IF x = k THEN v ELSE d[x]]

(***************************************************************************)
(* The store as one value, the codec and the hash.                         *)
(***************************************************************************)
Store == [cache_size |-> cache_size, branches |-> branches,
          active_branch |-> active_branch, memory_cache |-> memory_cache,
          access_order |-> access_order, disk |-> disk,
          dir_exists |-> dir_exists]

StateKey(branch, state_id) == branch \o SEP \o state_id
DiskStem(state_key) == Replace(state_key)

\* A DataFrame is an object: its content, and who holds a reference to it
\* besides the code that is running: the calling session ("caller"), the
\* memory cache ("cache"), or nobody yet ("new").
CallerDf(d) == [data |-> d, held_by |-> "caller"]
NewDf(d) == [data |-> d, held_by |-> "new"]
\* the object once self._memory_cache[state_key] refers to it
Cached(df) == [df EXCEPT !.held_by = IF @ = "new" THEN "cache" ELSE @]

ToParquet(df) == [parquet |-> df.data]
ReadParquetOther(bytes) == NewDf(CHOOSE d \in Data : d # bytes.parquet)

\* pd.read_parquet of what DataFrame.to_parquet wrote
ReadParquet(bytes) == NewDf(bytes.parquet)
compute_hash(df) == [md5 |-> df.data]

DfSame(df) == df

\* DataFrame.copy(): a new object with the same content
DfCopy(df) == NewDf(df.data)

NewBranch(forked) == [forked_from |-> forked, states |-> <<>>]
ForkSummary(source_branch, state_id) ==
    <<"Forked from ">> \o source_branch \o SEP \o state_id

\* The outcome of a call: the store after it, the exception raised ("none" when
\* it returns), the exception's message, the DataFrames returned, and the files
\* written outside temp_dir.
Ok(S, v) == [st |-> S, exc |-> "none", msg |-> "", val |-> v, out |-> {}]
RaiseMsg(S, e, m) == [st |-> S, exc |-> e, msg |-> m, val |-> <<>>, out |-> {}]
Raise(S, e) == RaiseMsg(S, e, "")

(***************************************************************************)
(* StateManager._touch and StateManager._add_to_cache.                     *)
(***************************************************************************)
touchAppendOnly(S, state_key) ==
    [S EXCEPT !.access_order = @ \o <<state_key>>]

touch(S, state_key) ==
    LET removed == IF InList(S.access_order, state_key)
                   THEN ListRemove(S.access_order, state_key)
                   ELSE S.access_order
    IN [S EXCEPT !.access_order = removed \o <<state_key>>]

EvictIndexNewest(order) == Len(order)

\* self._access_order.pop(0): the position of the key that is evicted
EvictIndex(order) == 1

AtCapacityOffByOne(S) == Cardinality(DOMAIN S.memory_cache) > S.cache_size

\* while len(self._memory_cache) >= self.cache_size
AtCapacity(S) == Cardinality(DOMAIN S.memory_cache) >= S.cache_size

\* One pass of the eviction loop for as long as the cache is at capacity:
\* pop the key, pop its DataFrame, write it to temp_dir.  to_parquet raises
\* when temp_dir is gone, after both pops.
RECURSIVE EvictLoop(_)
EvictLoop(S) ==
    IF AtCapacity(S)
    THEN IF S.access_order = <<>> THEN Raise(S, "IndexError")
         ELSE LET i == EvictIndex(S.access_order)
                  evict_key == S.access_order[i]
                  S1 == [S EXCEPT !.access_order =
                            SubSeq(@, 1, i - 1) \o SubSeq(@, i + 1, Len(@))]
              IN IF evict_key \notin DOMAIN S1.memory_cache
                 THEN Raise(S1, "KeyError")
                 ELSE LET evicted_df == S1.memory_cache[evict_key]
                          S2 == [S1 EXCEPT !.memory_cache = DictDel(@, {evict_key})]
                      IN IF ~S2.dir_exists THEN Raise(S2, "OSError")
                         ELSE EvictLoop([S2 EXCEPT !.disk =
                                 DictSet(@, DiskStem(evict_key), ToParquet(evicted_df))])
    ELSE Ok(S, <<>>)

add_to_cache(S, state_key, df) ==
    IF state_key \in DOMAIN S.memory_cache
    THEN Ok(touch(S, state_key), <<>>)
    ELSE LET E == EvictLoop(S)
         IN IF E.exc # "none" THEN E
            ELSE Ok([E.st EXCEPT !.memory_cache = DictSet(@, state_key, Cached(df)),
                                 !.access_order = Append(@, state_key)], <<>>)

(***************************************************************************)
(* StateManager.commit_state, load_state, get_current_state.               *)
(***************************************************************************)
ParentFirst(states) == IF states = <<>> THEN {} ELSE {states[1].id}

\* parent = branch.states[-1].id if branch.states else None
Parent(states) == IF states = <<>> THEN {} ELSE {states[Len(states)].id}

StateRecordHashesId(state_id, parent, df, config_snapshot, delta_summary) ==
    [id |-> state_id, parent |-> parent,
     data_hash |-> [md5 |-> <<df.data, state_id>>],
     config_snapshot |-> config_snapshot, delta_summary |-> delta_summary]

StateRecord(state_id, parent, df, config_snapshot, delta_summary) ==
    [id |-> state_id, parent |-> parent, data_hash |-> compute_hash(df),
     config_snapshot |-> config_snapshot, delta_summary |-> delta_summary]

CommitBranchMain(S) == MAIN

\* branch = self.branches[self.active_branch]: the branch a commit appends to
CommitBranch(S) == S.active_branch

commit_state(S, state_id, df, config_snapshot, delta_summary) ==
    LET state_key == StateKey(S.active_branch, state_id)
        A == add_to_cache(S, state_key, DfCopy(df))
        name == CommitBranch(A.st)
    IN IF A.exc # "none" THEN A
       ELSE IF name \notin DOMAIN A.st.branches
       THEN Raise(A.st, "KeyError")
       ELSE LET states == A.st.branches[name].states
                rec == StateRecord(state_id, Parent(states), df,
                                   config_snapshot, delta_summary)
            IN Ok([A.st EXCEPT !.branches[name].states = Append(@, rec)], <<>>)

DiskHas(S, state_key) == S.dir_exists /\ DiskStem(state_key) \in DOMAIN S.disk

load_state(S, branch, state_id) ==
    LET state_key == StateKey(branch, state_id)
    IN IF state_key \in DOMAIN S.memory_cache
       THEN Ok(touch(S, state_key), <<DfCopy(S.memory_cache[state_key])>>)
       ELSE IF DiskHas(S, state_key)
       THEN LET df == ReadParquet(S.disk[DiskStem(state_key)])
                A == add_to_cache(S, state_key, df)
            \* df is by now the object the cache holds under state_key
            IN IF A.exc # "none" THEN A
               ELSE Ok(A.st, <<DfCopy(A.st.memory_cache[state_key])>>)
       ELSE RaiseMsg(S, "StateNotFoundError", "State not found")

get_current_state(S) ==
    IF S.active_branch \notin DOMAIN S.branches THEN Raise(S, "KeyError")
    ELSE LET states == S.branches[S.active_branch].states
         IN IF states = <<>> THEN Ok(S, <<>>)
            ELSE load_state(S, S.active_branch, states[Len(states)].id)

(***************************************************************************)
(* StateManager._get_config_at_state, create_branch, switch_branch,        *)
(* delete_branch.                                                          *)
(***************************************************************************)
NoConfig == "{}"

RECURSIVE ConfigScan(_, _)
ConfigScan(states, state_id) ==
    IF states = <<>> THEN NoConfig
    ELSE IF Head(states).id = state_id THEN Head(states).config_snapshot
    ELSE ConfigScan(Tail(states), state_id)

get_config_at_state(S, branch, state_id) ==
    ConfigScan(S.branches[branch].states, state_id)

create_branch(S, new_branch_name, fork_from_state) ==
    LET source_branch == S.active_branch
        L == load_state(S, source_branch, fork_from_state)
    IN IF L.exc # "none" THEN L
       ELSE IF source_branch \notin DOMAIN L.st.branches
       THEN Raise(L.st, "KeyError")
       ELSE LET source_df == L.val[1]
                source_config ==
                    get_config_at_state(L.st, source_branch, fork_from_state)
                forked == {[branch |-> source_branch, state_id |-> fork_from_state]}
                S1 == [L.st EXCEPT
                         !.branches = DictSet(@, new_branch_name, NewBranch(forked)),
                         !.active_branch = new_branch_name]
            IN commit_state(S1, fork_from_state, source_df, source_config,
                            ForkSummary(source_branch, fork_from_state))

switchBranchBeforeCheck(S, branch_name) ==
    LET S1 == [S EXCEPT !.active_branch = branch_name]
    IN IF branch_name \notin DOMAIN S.branches
       THEN RaiseMsg(S1, "ValueError", "Branch does not exist")
       ELSE IF S1.branches[branch_name].states = <<>> THEN Raise(S1, "IndexError")
       ELSE load_state(S1, branch_name,
                       S1.branches[branch_name].states[
                           Len(S1.branches[branch_name].states)].id)

switch_branch(S, branch_name) ==
    IF branch_name \notin DOMAIN S.branches
    THEN RaiseMsg(S, "ValueError", "Branch does not exist")
    ELSE LET S1 == [S EXCEPT !.active_branch = branch_name]
             states == S1.branches[branch_name].states
         IN IF states = <<>> THEN Raise(S1, "IndexError")
            ELSE load_state(S1, branch_name, states[Len(states)].id)

\* Path.glob(f"{branch_name}__*.parquet") on the stems of the files
GlobMatch(stem, branch_name) == StartsWith(stem, branch_name \o SAFE)

deleteBranchNoActiveCheck(S, branch_name) ==
    IF branch_name = MAIN THEN RaiseMsg(S, "ValueError", "Cannot delete main branch")
    ELSE IF branch_name \notin DOMAIN S.branches THEN Raise(S, "KeyError")
    ELSE Ok([S EXCEPT
               !.memory_cache = DictDel(@,
                   {k \in DOMAIN @ : StartsWith(k, branch_name \o SEP)}),
               !.access_order = ListRemoveAll(@,
                   {k \in DOMAIN S.memory_cache : StartsWith(k, branch_name \o SEP)}),
               !.branches = DictDel(@, {branch_name})], <<>>)

deleteBranchNoMainCheck(S, branch_name) ==
    IF branch_name = S.active_branch THEN RaiseMsg(S, "ValueError", "Cannot delete active branch")
    ELSE IF branch_name \notin DOMAIN S.branches THEN Raise(S, "KeyError")
    ELSE Ok([S EXCEPT
               !.memory_cache = DictDel(@,
                   {k \in DOMAIN @ : StartsWith(k, branch_name \o SEP)}),
               !.access_order = ListRemoveAll(@,
                   {k \in DOMAIN S.memory_cache : StartsWith(k, branch_name \o SEP)}),
               !.branches = DictDel(@, {branch_name})], <<>>)

delete_branch(S, branch_name) ==
    IF branch_name = MAIN THEN RaiseMsg(S, "ValueError", "Cannot delete main branch")
    ELSE IF branch_name = S.active_branch THEN RaiseMsg(S, "ValueError", "Cannot delete active branch")
    ELSE LET keys_to_remove ==
                 {k \in DOMAIN S.memory_cache : StartsWith(k, branch_name \o SEP)}
             files == IF S.dir_exists
                      THEN {f \in DOMAIN S.disk : GlobMatch(f, branch_name)}
                      ELSE {}
             S1 == [S EXCEPT !.memory_cache = DictDel(@, keys_to_remove),
                             !.access_order = ListRemoveAll(@, keys_to_remove),
                             !.disk = DictDel(@, files)]
         IN IF branch_name \notin DOMAIN S1.branches THEN Raise(S1, "KeyError")
            ELSE Ok([S1 EXCEPT !.branches = DictDel(@, {branch_name})], <<>>)

(***************************************************************************)
(* StateManager.compare_branches, export_pipeline, cleanup, reset.         *)
(***************************************************************************)
compare_branches(S, branch_a, branch_b, state_id) ==
    LET A == load_state(S, branch_a, state_id)
    IN IF A.exc # "none" THEN A
       ELSE LET B == load_state(A.st, branch_b, state_id)
            IN IF B.exc # "none" THEN B
               ELSE Ok(B.st, A.val \o B.val)

\* The files one call writes into output_dir; val is the DataFrame written
\* as df_raw.parquet, if any.
export_pipeline(S) ==
    LET L == load_state(S, MAIN, DF_RAW)
        raw == IF L.exc = "none" THEN {"df_raw.parquet"} ELSE {}
        cfg == IF S.active_branch \in DOMAIN L.st.branches
                  /\ L.st.branches[S.active_branch].states # <<>>
               THEN {"pipeline_config.json"} ELSE {}
    IN IF L.exc \notin {"none", "StateNotFoundError"}
       THEN Raise(L.st, L.exc)
       ELSE [Ok(L.st, L.val) EXCEPT !.out = raw \cup {"state_store.json"} \cup cfg]

cleanupMemoryOnly(S) == [S EXCEPT !.memory_cache = <<>>, !.access_order = <<>>]

cleanup(S) ==
    [S EXCEPT !.memory_cache = <<>>, !.access_order = <<>>,
              !.disk = <<>>, !.dir_exists = FALSE]

InitBranches == [n \in {MAIN} |-> NewBranch({})]

\* StateManager.__init__(cache): the attributes of a new instance, and
\* temp_dir.mkdir(exist_ok=True) on the directory S has
Construct(cache, S) ==
    [cache_size |-> cache, branches |-> InitBranches, active_branch |-> MAIN,
     memory_cache |-> <<>>, access_order |-> <<>>,
     disk |-> S.disk, dir_exists |-> TRUE]

\* the attributes of an instance, without the directory
Private(S) ==
    [cache_size |-> S.cache_size, branches |-> S.branches,
     active_branch |-> S.active_branch, memory_cache |-> S.memory_cache,
     access_order |-> S.access_order]

\* components.gdpr_consent.clear_all_session_data on the session's store
clear_all_session_data(S) ==
    LET C == cleanup(S)
    IN IF C.dir_exists THEN [C EXCEPT !.disk = <<>>, !.dir_exists = TRUE]
       ELSE C

resetKeepsBranches(S) == [cleanup(S) EXCEPT !.dir_exists = TRUE]

reset(S) ==
    [cleanup(S) EXCEPT !.dir_exists = TRUE, !.branches = InitBranches,
                       !.active_branch = MAIN, !.memory_cache = <<>>,
                       !.access_order = <<>>]

(***************************************************************************)
(* The calls.  Each action is one call of a public method by the session,  *)
(* run to completion; last records the call and its outcome.               *)
(***************************************************************************)
Apply(S) ==
    /\ cache_size' = S.cache_size
    /\ branches' = S.branches
    /\ active_branch' = S.active_branch
    /\ memory_cache' = S.memory_cache
    /\ access_order' = S.access_order
    /\ disk' = S.disk
    /\ dir_exists' = S.dir_exists
    /\ universe' = universe
    /\ other' = other

Call(op, args, payload, R) ==
    [op |-> op, args |-> args, payload |-> payload,
     exc |-> R.exc, msg |-> R.msg, val |-> R.val, out |-> R.out]

\* The LRU scenario: on a fresh store, cache_size + 1 commits with distinct
\* keys, then a load of the first key, then a commit of one more new key.
ScenarioStart == [phase |-> "commits", keys |-> <<>>]
ScenarioOff == [phase |-> "off", keys |-> <<>>]

ScenarioStep(op, state_key, exc) ==
    IF exc # "none" THEN ScenarioOff
    ELSE IF op = "commit_state" /\ scenario.phase = "commits"
            /\ ~InList(scenario.keys, state_key)
            /\ Len(scenario.keys) <= cache_size
    THEN [scenario EXCEPT !.keys = Append(@, state_key)]
    ELSE IF op = "load_state" /\ scenario.phase = "commits"
            /\ Len(scenario.keys) = cache_size + 1
            /\ state_key = scenario.keys[1]
    THEN [scenario EXCEPT !.phase = "reloaded"]
    ELSE IF op = "commit_state" /\ scenario.phase = "reloaded"
            /\ ~InList(scenario.keys, state_key)
    THEN [phase |-> "final", keys |-> Append(scenario.keys, state_key)]
    ELSE ScenarioOff

CommitState ==
    \E state_id \in StateIds, p \in Payloads :
        /\ writes < universe.max_writes
        /\ writes' = writes + 1
        /\ LET R == commit_state(Store, state_id, CallerDf(p.df), p.config,
                                 <<"step">>)
           IN /\ Apply(R.st)
              /\ last' = Call("commit_state", <<state_id>>, {p}, R)
              /\ committed' = IF R.exc # "none" THEN committed
                               ELSE committed \cup {[branch |-> active_branch,
                                                     id |-> state_id, df |-> p.df]}
              /\ scenario' = ScenarioStep("commit_state",
                                 StateKey(active_branch, state_id), R.exc)

LoadState ==
    \E branch \in BranchNames, state_id \in StateIds :
        LET R == load_state(Store, branch, state_id)
        IN /\ Apply(R.st)
           /\ last' = Call("load_state", <<branch, state_id>>, {}, R)
           /\ scenario' = ScenarioStep("load_state",
                              StateKey(branch, state_id), R.exc)
           /\ writes' = writes
           /\ committed' = committed

GetCurrentState ==
    LET R == get_current_state(Store)
    IN /\ Apply(R.st)
       /\ last' = Call("get_current_state", <<>>, {}, R)
       /\ scenario' = ScenarioOff
       /\ writes' = writes
       /\ committed' = committed

CreateBranch ==
    \E new_branch_name \in BranchNames, fork_from_state \in StateIds :
        /\ writes < universe.max_writes
        /\ writes' = writes + 1
        /\ LET R == create_branch(Store, new_branch_name, fork_from_state)
           IN /\ Apply(R.st)
              /\ last' = Call("create_branch",
                              <<new_branch_name, fork_from_state>>, {}, R)
              /\ committed' =
                    IF R.exc # "none" THEN committed
                    ELSE committed \cup
                           {[branch |-> new_branch_name, id |-> fork_from_state,
                             df |-> load_state(Store, active_branch,
                                               fork_from_state).val[1].data]}
              /\ scenario' = ScenarioOff

SwitchBranch ==
    \E branch_name \in BranchNames :
        LET R == switch_branch(Store, branch_name)
        IN /\ Apply(R.st)
           /\ last' = Call("switch_branch", <<branch_name>>, {}, R)
           /\ scenario' = ScenarioOff
           /\ writes' = writes
           /\ committed' = committed

DeleteBranch ==
    \E branch_name \in BranchNames :
        LET R == delete_branch(Store, branch_name)
        IN /\ Apply(R.st)
           /\ last' = Call("delete_branch", <<branch_name>>, {}, R)
           /\ scenario' = ScenarioOff
           /\ writes' = writes
           /\ committed' = committed

CompareBranches ==
    \E branch_a \in BranchNames, branch_b \in BranchNames, state_id \in StateIds :
        LET R == compare_branches(Store, branch_a, branch_b, state_id)
        IN /\ Apply(R.st)
           /\ last' = Call("compare_branches",
                           <<branch_a, branch_b, state_id>>, {}, R)
           /\ scenario' = ScenarioOff
           /\ writes' = writes
           /\ committed' = committed

ExportPipeline ==
    LET R == export_pipeline(Store)
    IN /\ Apply(R.st)
       /\ last' = Call("export_pipeline", <<>>, {}, R)
       /\ scenario' = ScenarioOff
       /\ writes' = writes
       /\ committed' = committed

Cleanup ==
    /\ Apply(cleanup(Store))
    /\ last' = Call("cleanup", <<>>, {}, Ok(Store, <<>>))
    /\ scenario' = ScenarioOff
    /\ writes' = writes
    /\ committed' = committed

Reset ==
    /\ Apply(reset(Store))
    /\ last' = Call("reset", <<>>, {}, Ok(Store, <<>>))
    /\ scenario' = ScenarioStart
    /\ writes' = writes
    /\ committed' = {}

(***************************************************************************)
(* A second session of the same process.  app.py constructs StateManager() *)
(* with the default arguments for every session, so the second instance    *)
(* has attributes of its own and the temp_dir of the first.                *)
(***************************************************************************)
OtherStore ==
    [cache_size |-> other.cache_size, branches |-> other.branches,
     active_branch |-> other.active_branch,
     memory_cache |-> other.memory_cache,
     access_order |-> other.access_order,
     disk |-> disk, dir_exists |-> dir_exists]

ApplyOther(S) ==
    /\ other' = Private(S)
    /\ disk' = S.disk
    /\ dir_exists' = S.dir_exists
    /\ UNCHANGED <<cache_size, branches, active_branch, memory_cache,
                   access_order, universe, committed>>
    /\ scenario' = ScenarioOff

OtherCommitState ==
    \E state_id \in StateIds, p \in Payloads :
        /\ writes < universe.max_writes
        /\ writes' = writes + 1
        /\ LET R == commit_state(OtherStore, state_id, CallerDf(p.df), p.config,
                                 <<"step">>)
           IN /\ ApplyOther(R.st)
              /\ last' = Call("other.commit_state", <<state_id>>, {p}, R)

OtherCleanup ==
    /\ ApplyOther(cleanup(OtherStore))
    /\ last' = Call("other.cleanup", <<>>, {}, Ok(Store, <<>>))
    /\ writes' = writes

OtherReset ==
    /\ ApplyOther(reset(OtherStore))
    /\ last' = Call("other.reset", <<>>, {}, Ok(Store, <<>>))
    /\ writes' = writes

\* "Delete All Data": clear_all_session_data(), then st.rerun() and
\* init_session_state() construct the session's next StateManager()
OtherClearAll ==
    /\ ApplyOther(Construct(other.cache_size,
                            clear_all_session_data(OtherStore)))
    /\ last' = Call("other.clear_all_session_data", <<>>, {}, Ok(Store, <<>>))
    /\ writes' = writes

\* StateManager.__init__ with cache_size >= 1 and a temp_dir of its own
InitWith(U) ==
    /\ cache_size \in 1..MaxCache
    /\ branches = InitBranches
    /\ active_branch = MAIN
    /\ memory_cache = <<>>
    /\ access_order = <<>>
    /\ disk = <<>>
    /\ dir_exists = TRUE
    /\ last = Call("__init__", <<>>, {}, Ok(<<>>, <<>>))
    /\ scenario = ScenarioStart
    /\ universe = U
    /\ writes = 0
    /\ committed = {}
    /\ other = Private(Construct(cache_size, Store))

Init == InitWith(PlainUniverse)
InitSeparator == InitWith(SeparatorUniverse)
InitLinear == InitWith(LinearUniverse)
InitReload == InitWith(ReloadUniverse)
InitCollision == InitWith(CollisionUniverse)
InitFork == InitWith(ForkUniverse)
InitShared == InitWith(SharedUniverse)

Next ==
    \/ CommitState
    \/ LoadState
    \/ GetCurrentState
    \/ CreateBranch
    \/ SwitchBranch
    \/ DeleteBranch
    \/ CompareBranches
    \/ ExportPipeline
    \/ Cleanup
    \/ Reset

Spec == Init /\ [][Next]_vars

SpecSeparator == InitSeparator /\ [][Next]_vars
SpecLinear == InitLinear /\ [][Next]_vars
SpecReload == InitReload /\ [][Next]_vars
SpecCollision == InitCollision /\ [][Next]_vars
SpecFork == InitFork /\ [][Next]_vars

\* Two sessions: the calls of the first and of the second interleave.
NextShared ==
    \/ Next
    \/ OtherCommitState
    \/ OtherCleanup
    \/ OtherReset
    \/ OtherClearAll

SpecShared == InitShared /\ [][NextShared]_vars

(***************************************************************************)
(* Notions the properties share.                                           *)
(***************************************************************************)
Resident(state_key) == state_key \in DOMAIN memory_cache
Spilled(state_key) == DiskHas(Store, state_key)
Loadable(branch, state_id) ==
    load_state(Store, branch, state_id).exc # "StateNotFoundError"
Records(b) == {branches[b].states[i] : i \in 1..Len(branches[b].states)}
Terminal(b) == branches[b].states[Len(branches[b].states)]
\* cleanup() removes temp_dir and only reset() makes it again, and reset()
\* leaves a fresh store: temp_dir exists exactly in the runs whose calls
\* since the store was last fresh include no cleanup().
NeverPurged == dir_exists

(***************************************************************************)
(* C1. Durability of checkpoints: as long as neither cleanup nor reset was *)
(* called, every record of every registered branch can be loaded:          *)
(* load_state(b, r.id) does not raise StateNotFoundError.                  *)
(***************************************************************************)
C1_Durability ==
    NeverPurged =>
        \A b \in DOMAIN branches : \A r \in Records(b) : Loadable(b, r.id)

(***************************************************************************)
(* C2. Cache capacity bound: in every reachable state the memory cache     *)
(* holds at most cache_size DataFrames, and no call changes cache_size.    *)
(***************************************************************************)
C2_CacheBound ==
    /\ [](Cardinality(DOMAIN memory_cache) <= cache_size)
    /\ [][cache_size' = cache_size]_vars

\* a cache-miss reload into a full cache has just spilled another key
C2_Witness ==
    /\ last.op = "load_state" /\ last.exc = "none"
    /\ Cardinality(DOMAIN memory_cache) = cache_size
    /\ \E k \in DOMAIN memory_cache : Spilled(k)
    /\ \E f \in DOMAIN disk : \A k \in DOMAIN memory_cache : DiskStem(k) # f

(***************************************************************************)
(* C3. LRU eviction order.  As claimed, for every cache_size N >= 1: after *)
(* N+1 commits with distinct keys the first key is not resident and has a  *)
(* spill file; after reloading it and committing one more new key, the     *)
(* second-oldest key is not resident and the reloaded key still is.        *)
(***************************************************************************)
ScenarioFilled ==
    scenario.phase = "commits" /\ Len(scenario.keys) = cache_size + 1

C3_FirstKeySpilled ==
    ScenarioFilled =>
        ~Resident(scenario.keys[1]) /\ Spilled(scenario.keys[1])

C3_RecencyRespected ==
    scenario.phase = "final" =>
        ~Resident(scenario.keys[2]) /\ Resident(scenario.keys[1])

C3_AsClaimed == C3_FirstKeySpilled /\ C3_RecencyRespected

\* C3 as amended: the second part for cache_size >= 2 only.  With
\* cache_size = 1 the reloaded key is the only resident one and the next
\* commit evicts it.
C3_LRUOrder ==
    /\ C3_FirstKeySpilled
    /\ cache_size >= 2 => C3_RecencyRespected
    /\ (cache_size = 1 /\ scenario.phase = "final") =>
           ~Resident(scenario.keys[1]) /\ Spilled(scenario.keys[1])

C3_Witness ==
    /\ scenario.phase = "final" /\ cache_size = 2
    /\ last.op = "commit_state" /\ last.exc = "none"
    /\ Resident(scenario.keys[1])

(***************************************************************************)
(* C4. Cache-miss reload: load_state of a key that is not resident and has *)
(* a spill file returns the dataset of that file, which was committed      *)
(* under that key, makes the key the most recently used resident key, and  *)
(* spills the least recently used key when the cache was full.  With       *)
(* cache_size 2 and three commits on main, loading the first leaves the    *)
(* first and third resident and the second on disk.                        *)
(***************************************************************************)
ReloadStep ==
    LET branch == last'.args[1]
        state_id == last'.args[2]
        key == StateKey(branch, state_id)
        lru == Head(access_order)
    IN (last'.op = "load_state" /\ ~Resident(key) /\ Spilled(key)) =>
         /\ last'.exc = "none"
         /\ Len(last'.val) = 1
         /\ ToParquet(last'.val[1]) = disk[DiskStem(key)]
         /\ \E t \in committed :
               t.branch = branch /\ t.id = state_id
               /\ t.df = last'.val[1].data
         /\ key \in DOMAIN memory_cache'
         /\ memory_cache'[key].data = last'.val[1].data
         /\ access_order'[Len(access_order')] = key
         /\ IF Cardinality(DOMAIN memory_cache) = cache_size
            THEN /\ DOMAIN memory_cache' =
                        (DOMAIN memory_cache \ {lru}) \cup {key}
                 /\ DiskStem(lru) \in DOMAIN disk'
                 /\ disk'[DiskStem(lru)] = ToParquet(memory_cache[lru])
            ELSE /\ DOMAIN memory_cache' = DOMAIN memory_cache \cup {key}
                 /\ disk' = disk

ReloadScenario ==
    (cache_size = 2 /\ scenario.phase = "reloaded") =>
        /\ DOMAIN memory_cache = {scenario.keys[1], scenario.keys[3]}
        /\ Spilled(scenario.keys[2])
        /\ last.exc = "none"

C4_CacheMissReload == [][ReloadStep]_vars /\ []ReloadScenario

C4_Witness ==
    /\ cache_size = 2 /\ scenario.phase = "reloaded"
    /\ last.op = "load_state" /\ last.val # <<>>
    /\ Spilled(scenario.keys[2])

(***************************************************************************)
(* C5. Load operates on the terminal occurrence: for every branch with a   *)
(* history, what load_state returns for the id of the terminal record has  *)
(* the hash that record holds.                                             *)
(***************************************************************************)
C5_TerminalLoad ==
    \A b \in DOMAIN branches :
        branches[b].states # <<>> =>
            LET R == load_state(Store, b, Terminal(b).id)
            IN R.exc = "none" =>
                   compute_hash(R.val[1]) = Terminal(b).data_hash

(***************************************************************************)
(* C6. Branch isolation: a commit_state call leaves every branch other     *)
(* than the active one in the registry with the history it had.            *)
(***************************************************************************)
C6_BranchIsolation ==
    [][last'.op = "commit_state" =>
          \A a \in DOMAIN branches \ {active_branch} :
              a \in DOMAIN branches' /\ branches'[a] = branches[a]]_vars

\* a commit went through on b while main holds records
C6_Witness ==
    /\ last.op = "commit_state" /\ last.exc = "none"
    /\ active_branch # MAIN
    /\ Len(branches[active_branch].states) >= 2
    /\ branches[MAIN].states # <<>>

(***************************************************************************)
(* C7. Fork round-trip: after a create_branch(n, c) that returns, what     *)
(* get_current_state returns on n has the hash of what load_state(A, c)    *)
(* returned on the branch A that was active.                               *)
(***************************************************************************)
C7_ForkRoundTrip ==
    [][(last'.op = "create_branch" /\ last'.exc = "none") =>
          LET src == load_state(Store, active_branch, last'.args[2])
              cur == get_current_state(Store')
          IN /\ cur.exc = "none"
             /\ Len(cur.val) = 1
             /\ compute_hash(cur.val[1]) = compute_hash(src.val[1])]_vars

(***************************************************************************)
(* C8. Fork postcondition: a create_branch(n, c) that returns leaves n     *)
(* active, forked from (A, c), with the one record c, no parent, and a     *)
(* summary noting the fork; and in every reachable state every branch      *)
(* with forked_from set has a first record with the id it was forked at.   *)
(***************************************************************************)
ForkPostcondition ==
    (last'.op = "create_branch" /\ last'.exc = "none") =>
        LET n == last'.args[1]
            c == last'.args[2]
        IN /\ active_branch' = n
           /\ n \in DOMAIN branches'
           /\ branches'[n].forked_from =
                  {[branch |-> active_branch, state_id |-> c]}
           /\ Len(branches'[n].states) = 1
           /\ branches'[n].states[1].id = c
           /\ branches'[n].states[1].parent = {}
           /\ branches'[n].states[1].delta_summary =
                  ForkSummary(active_branch, c)

ForkedFirstRecord ==
    \A b \in DOMAIN branches :
        \A f \in branches[b].forked_from :
            /\ branches[b].states # <<>>
            /\ branches[b].states[1].id = f.state_id

C8_ForkPostcondition == [][ForkPostcondition]_vars /\ []ForkedFirstRecord

(***************************************************************************)
(* C9. Erasure completeness: right after cleanup the cache and the access  *)
(* order are empty, temp_dir holds no spill file, and load_state raises    *)
(* StateNotFoundError for every key, those committed before included.      *)
(***************************************************************************)
C9_ErasureComplete ==
    last.op = "cleanup" =>
        /\ memory_cache = <<>>
        /\ access_order = <<>>
        /\ disk = <<>>
        /\ \A t \in committed :
               load_state(Store, t.branch, t.id).exc = "StateNotFoundError"
        /\ \A b \in BranchNames : \A c \in StateIds :
               load_state(Store, b, c).exc = "StateNotFoundError"

\* cleanup of a store that had committed, spilled and cached data
C9_Witness ==
    /\ last.op = "cleanup"
    /\ Cardinality(committed) >= 2
    /\ \E b \in DOMAIN branches : Len(branches[b].states) >= 2

(***************************************************************************)
(* C10. Reset equivalence: right after reset the store is what             *)
(* construction with the same cache_size leaves: an empty main without     *)
(* fork origin, active, nothing cached or spilled, temp_dir present, and   *)
(* get_current_state returns None.                                         *)
(***************************************************************************)
FreshStore ==
    [cache_size |-> cache_size, branches |-> InitBranches,
     active_branch |-> MAIN, memory_cache |-> <<>>, access_order |-> <<>>,
     disk |-> <<>>, dir_exists |-> TRUE]

C10_ResetEquivalence ==
    last.op = "reset" =>
        /\ Store = FreshStore
        /\ DOMAIN branches = {MAIN}
        /\ branches[MAIN] = [forked_from |-> {}, states |-> <<>>]
        /\ get_current_state(Store) = Ok(Store, <<>>)

\* reset of a store that had forked and committed
C10_Witness ==
    /\ last.op = "reset"
    /\ writes >= 2

(***************************************************************************)
(* C11. Invalid deletion is rejected without effect: delete_branch('main') *)
(* and delete_branch of the active branch each raise, the error of the     *)
(* main case differs from the error of the active case, and the registry,  *)
(* the active branch, the cache and the spill files stay as they were.     *)
(***************************************************************************)
DeleteError(name) ==
    LET R == delete_branch(Store, name) IN <<R.exc, R.msg>>

InvalidDeletion ==
    LET name == last'.args[1]
    IN (last'.op = "delete_branch" /\ (name = MAIN \/ name = active_branch)) =>
          /\ last'.exc = "ValueError"
          /\ Store' = Store
          /\ <<last'.exc, last'.msg>> = DeleteError(name)

DistinctDeleteErrors ==
    active_branch # MAIN =>
        /\ DeleteError(MAIN)[1] # "none"
        /\ DeleteError(active_branch)[1] # "none"
        /\ DeleteError(MAIN) # DeleteError(active_branch)

C11_InvalidDeletion == [][InvalidDeletion]_vars /\ []DistinctDeleteErrors

\* the active branch b was refused while the store held cached and spilled data
C11_Witness ==
    /\ last.op = "delete_branch" /\ last.args = <<active_branch>>
    /\ active_branch # MAIN
    /\ last.msg = "Cannot delete active branch"
    /\ memory_cache # <<>> /\ disk # <<>>

(***************************************************************************)
(* C12. delete_branch removes exactly the deleted branch's data: after a   *)
(* delete_branch(b) that returns, b is not in the registry and             *)
(* load_state(b, c) raises StateNotFoundError for every c, while the       *)
(* history, the cache entries and the spill files of every other branch    *)
(* are as they were, whatever the names.                                   *)
(***************************************************************************)
SameEntry(f, g, k) ==
    /\ k \in DOMAIN f <=> k \in DOMAIN g
    /\ k \in DOMAIN f => g[k] = f[k]

DeleteExact ==
    LET b == last'.args[1]
    IN (last'.op = "delete_branch" /\ last'.exc = "none") =>
          /\ b \notin DOMAIN branches'
          /\ \A c \in StateIds :
                load_state(Store', b, c).exc = "StateNotFoundError"
          /\ \A o \in BranchNames \ {b} :
                /\ o \in DOMAIN branches =>
                      o \in DOMAIN branches' /\ branches'[o] = branches[o]
                /\ \A c \in StateIds :
                      /\ SameEntry(memory_cache, memory_cache', StateKey(o, c))
                      /\ SameEntry(disk, disk', DiskStem(StateKey(o, c)))

C12_DeleteExact == [][DeleteExact]_vars

(***************************************************************************)
(* C13. switch_branch to a name that is not in the registry raises the     *)
(* branch-not-found error and leaves the active branch, the registry, the  *)
(* cache and the spill files as they were.                                 *)
(***************************************************************************)
C13_UnknownBranch ==
    [][(last'.op = "switch_branch" /\ last'.args[1] \notin DOMAIN branches) =>
          /\ last'.exc = "ValueError"
          /\ last'.msg = "Branch does not exist"
          /\ Store' = Store]_vars

\* an unknown name was refused by a store that holds cached and spilled data
C13_Witness ==
    /\ last.op = "switch_branch" /\ last.exc = "ValueError"
    /\ last.args[1] \notin DOMAIN branches
    /\ branches[active_branch].states # <<>>
    /\ memory_cache # <<>> /\ disk # <<>>

(***************************************************************************)
(* C14. switch_branch(b) for a branch b of the registry makes b active and *)
(* returns what get_current_state() returns afterwards: the dataset of     *)
(* b's terminal checkpoint, or None when b's history is empty.             *)
(***************************************************************************)
C14_SwitchReturnsCurrent ==
    [][(last'.op = "switch_branch" /\ last'.args[1] \in DOMAIN branches) =>
          LET b == last'.args[1]
              cur == get_current_state(Store')
          IN /\ active_branch' = b
             /\ last'.exc = cur.exc
             /\ last'.val = cur.val
             /\ branches[b].states = <<>> =>
                   last'.exc = "none" /\ last'.val = <<>>]_vars

(***************************************************************************)
(* C15. No aliasing of stored datasets: no object in the cache is an       *)
(* object the caller passed in, and no object a call returns is an object  *)
(* the cache holds, on the cache-hit path and on the disk-reload path.     *)
(***************************************************************************)
C15_NoAliasing ==
    /\ \A k \in DOMAIN memory_cache : memory_cache[k].held_by = "cache"
    /\ \A i \in 1..Len(last.val) : last.val[i].held_by = "new"

\* a reload from disk returned a dataset that a caller had committed
C15_Witness ==
    /\ last.op = "load_state" /\ last.exc = "none"
    /\ Len(last.val) = 1
    /\ \E t \in committed :
          /\ <<t.branch, t.id>> = last.args
          /\ t.df = last.val[1].data
    /\ DiskHas(Store, StateKey(last.args[1], last.args[2]))

(***************************************************************************)
(* C16. History is append-only: on every call other than reset, every      *)
(* branch that is in the registry before and after the call has its old    *)
(* history as a prefix of its new one, create_branch with the name of an   *)
(* existing branch included.                                               *)
(***************************************************************************)
IsPrefix(old, new) ==
    Len(old) <= Len(new) /\ SubSeq(new, 1, Len(old)) = old

C16_AppendOnly ==
    [][last'.op # "reset" =>
          \A b \in DOMAIN branches \cap DOMAIN branches' :
              IsPrefix(branches[b].states, branches'[b].states)]_vars

(***************************************************************************)
(* C17. Cross-instance isolation: no call of the second StateManager()     *)
(* changes what load_state of the first returns or raises for any key,     *)
(* and load_state of the first never returns a dataset that the first      *)
(* did not commit under that key.                                          *)
(***************************************************************************)
LoadOutcome(S, branch, state_id) ==
    LET R == load_state(S, branch, state_id) IN <<R.exc, R.val>>

OtherOps ==
    {"other.commit_state", "other.cleanup", "other.reset",
     "other.clear_all_session_data"}

OtherKeepsLoads ==
    last'.op \in OtherOps =>
        \A b \in BranchNames : \A c \in StateIds :
            LoadOutcome(Store', b, c) = LoadOutcome(Store, b, c)

NoForeignData ==
    \A b \in BranchNames : \A c \in StateIds :
        LET R == load_state(Store, b, c)
        IN R.exc = "none" =>
              \E t \in committed :
                  t.branch = b /\ t.id = c /\ t.df = R.val[1].data

C17_CrossInstance == [][OtherKeepsLoads]_vars /\ []NoForeignData

(***************************************************************************)
(* C18. A failed spill never drops data: when the write of the evicted     *)
(* DataFrame fails during commit_state, load_state or create_branch, the   *)
(* call raises and the DataFrame that was being evicted is still in the    *)
(* cache or on disk.                                                       *)
(***************************************************************************)
SpillFailed ==
    /\ last'.op \in {"commit_state", "load_state", "create_branch"}
    /\ last'.exc = "OSError"

C18_FailedSpillKeepsData ==
    [][SpillFailed =>
          \A e \in DOMAIN memory_cache :
              e \in DOMAIN memory_cache' \/ DiskHas(Store', e)]_vars

(***************************************************************************)
(* C19. export_pipeline is complete or fails: an export_pipeline call that *)
(* returns has written all three artifacts; when (main, df_raw) cannot be  *)
(* loaded or the active branch has no terminal record the call raises.     *)
(***************************************************************************)
Artifacts == {"df_raw.parquet", "state_store.json", "pipeline_config.json"}

C19_ExportComplete ==
    (last.op = "export_pipeline" /\ last.exc = "none") => last.out = Artifacts

(***************************************************************************)
(* C20. In-memory-only processing, as the privacy notice promises: in      *)
(* every reachable state of a session no dataset has been written to       *)
(* temp_dir; the data is in the memory cache only.                         *)
(***************************************************************************)
C20_InMemoryOnly == disk = <<>>

(***************************************************************************)
(* C21. Hash stability: the data_hash a commit records depends on the      *)
(* dataset alone: every commit_state that returns, in whatever state,      *)
(* branch, id and config, records the hash that a commit of the same       *)
(* dataset on a newly constructed store records, so two commits of one     *)
(* dataset under different ids record identical hashes.                    *)
(***************************************************************************)
HashOnFreshStore(d) ==
    LET R == commit_state(Construct(cache_size, cleanup(Store)), DF_RAW,
                          CallerDf(d), NoConfig, <<>>)
    IN R.st.branches[MAIN].states[1].data_hash

C21_HashStability ==
    [][(last'.op = "commit_state" /\ last'.exc = "none") =>
          \A p \in last'.payload :
              branches'[active_branch].states[
                  Len(branches'[active_branch].states)].data_hash
                  = HashOnFreshStore(p.df)]_vars

\* one dataset was committed on main and on b under different ids
C21_Witness ==
    /\ last.op = "commit_state" /\ last.exc = "none"
    /\ active_branch # MAIN
    /\ \E r \in Records(MAIN) :
          /\ r.id # Terminal(active_branch).id
          /\ r.data_hash = Terminal(active_branch).data_hash
          /\ r.delta_summary = Terminal(active_branch).delta_summary

(***************************************************************************)
(* C22. Cache entries never run ahead of metadata: in every reachable      *)
(* state every key resident in the memory cache is the key of a record     *)
(* with that id in the history of a branch of the registry.                *)
(***************************************************************************)
C22_CacheHasMetadata ==
    \A k \in DOMAIN memory_cache :
        \E b \in DOMAIN branches :
            \E r \in Records(b) : k = StateKey(b, r.id)

(***************************************************************************)
(* C23. Parent chain: every commit_state that returns, one that re-uses    *)
(* an id of the active branch included, appends one record whose parent    *)
(* is the id of the branch's previous terminal record (none for an empty   *)
(* history); a re-used id is no reason to raise; and in every reachable    *)
(* state, in every branch, the first record has no parent and each later   *)
(* record has its predecessor's id as parent.                              *)
(***************************************************************************)
CommitAppends ==
    LET old == branches[active_branch].states
        new == branches'[active_branch].states
    IN last'.op = "commit_state" =>
          /\ last'.exc = "none" =>
                /\ active_branch' = active_branch
                /\ Len(new) = Len(old) + 1
                /\ SubSeq(new, 1, Len(old)) = old
                /\ new[Len(new)].id = last'.args[1]
                /\ new[Len(new)].parent = Parent(old)
          /\ last'.exc # "none" => ~dir_exists

ParentChain ==
    \A b \in DOMAIN branches :
        \A i \in 1..Len(branches[b].states) :
            branches[b].states[i].parent =
                IF i = 1 THEN {} ELSE {branches[b].states[i - 1].id}

C23_ParentChain == [][CommitAppends]_vars /\ []ParentChain

\* the third commit on a branch re-used the id of the first
C23_Witness ==
    /\ last.op = "commit_state" /\ last.exc = "none"
    /\ Len(branches[active_branch].states) = 3
    /\ branches[active_branch].states[3].id = branches[active_branch].states[1].id
    /\ branches[active_branch].states[2].id # branches[active_branch].states[1].id

(***************************************************************************)
(* C24. Fork copies dataset and config of the same source checkpoint: the  *)
(* record that a create_branch(n, c) that returns commits on n has the     *)
(* data_hash and the config_snapshot of the terminal occurrence of id c    *)
(* in the history of the source branch.                                    *)
(***************************************************************************)
Occurrences(states, state_id) ==
    {i \in 1..Len(states) : states[i].id = state_id}

TerminalOccurrence(states, state_id) ==
    states[CHOOSE i \in Occurrences(states, state_id) :
               \A j \in Occurrences(states, state_id) : j <= i]

ForkCopiesSource ==
    LET n == last'.args[1]
        c == last'.args[2]
        src == branches[active_branch].states
        new == branches'[n].states
    IN (/\ last'.op = "create_branch" /\ last'.exc = "none"
        /\ Occurrences(src, c) # {}) =>
          /\ new[Len(new)].data_hash = TerminalOccurrence(src, c).data_hash
          /\ new[Len(new)].config_snapshot =
                 TerminalOccurrence(src, c).config_snapshot

C24_ForkCopiesSource == [][ForkCopiesSource]_vars

(***************************************************************************)
(* C25. Non-empty forked branches: in every reachable state, those after   *)
(* a create_branch whose inner commit failed included, every branch of     *)
(* the registry other than main has a non-empty history.                   *)
(***************************************************************************)
C25_ForkedNonEmpty ==
    \A b \in DOMAIN branches \ {MAIN} : branches[b].states # <<>>

(***************************************************************************)
(* C26. forked_from is immutable: on every call other than reset, a name   *)
(* that stays in the registry keeps its forked_from, create_branch with    *)
(* the name of an existing branch included; and main always has            *)
(* forked_from none.                                                       *)
(***************************************************************************)
ForkedFromKept ==
    last'.op # "reset" =>
        \A b \in DOMAIN branches \cap DOMAIN branches' :
            branches'[b].forked_from = branches[b].forked_from

MainNotForked == MAIN \in DOMAIN branches => branches[MAIN].forked_from = {}

C26_ForkedFromImmutable == [][ForkedFromKept]_vars /\ []MainNotForked

(***************************************************************************)
(* C27. Spill addressing is injective: two distinct (branch, id) pairs     *)
(* that were committed never have the same cache key or the same spill     *)
(* file, whatever the names, and load_state(b, c) never returns a dataset  *)
(* that was not committed under (b, c).                                    *)
(***************************************************************************)
AddressingInjective ==
    \A t, u \in committed :
        <<t.branch, t.id>> # <<u.branch, u.id>> =>
            /\ StateKey(t.branch, t.id) # StateKey(u.branch, u.id)
            /\ DiskStem(StateKey(t.branch, t.id)) #
                   DiskStem(StateKey(u.branch, u.id))

C27_SpillInjective ==
    /\ AddressingInjective
    /\ \A b \in BranchNames : \A c \in StateIds :
           LET R == load_state(Store, b, c)
           IN R.exc = "none" =>
                 \E t \in committed :
                     <<t.branch, t.id, t.df>> = <<b, c, R.val[1].data>>

(***************************************************************************)
(* C28. A failed fork is atomic: when create_branch(n, c) raises, the      *)
(* registry, the active branch and the set of loadable keys are what they  *)
(* were before the call.                                                   *)
(***************************************************************************)
LoadableKeys == {k \in BranchNames \X StateIds : Loadable(k[1], k[2])}

ForkFailed == last'.op = "create_branch" /\ last'.exc # "none"

C28_FailedForkAtomic ==
    [][ForkFailed =>
          /\ branches' = branches
          /\ active_branch' = active_branch
          /\ LoadableKeys' = LoadableKeys]_vars

(***************************************************************************)
(* C29. In every reachable state the active branch is a branch of the      *)
(* registry, and 'main' is a branch of the registry.                       *)
(***************************************************************************)
C29_ActiveRegistered ==
    /\ active_branch \in DOMAIN branches
    /\ MAIN \in DOMAIN branches

\* a fork that raised after it had registered and activated its branch,
\* a refused switch and a refused deletion are all among the reachable cases
C29_Witness ==
    /\ last.op = "create_branch" /\ last.exc = "OSError"
    /\ active_branch = last.args[1] /\ active_branch # MAIN
    /\ active_branch \in DOMAIN branches
    /\ branches[active_branch].states = <<>>

(***************************************************************************)
(* C30. In every reachable state _access_order has no duplicates and its   *)
(* keys are exactly the keys of _memory_cache, so the key popped for       *)
(* eviction is resident.                                                   *)
(***************************************************************************)
NoDuplicates(order) ==
    \A i, j \in 1..Len(order) : order[i] = order[j] => i = j

C30_RecencyConsistent ==
    /\ NoDuplicates(access_order)
    /\ {access_order[i] : i \in 1..Len(access_order)} = DOMAIN memory_cache
    /\ access_order # <<>> =>
           access_order[EvictIndex(access_order)] \in DOMAIN memory_cache

\* after an eviction whose disk write failed, with a key still resident
C30_Witness ==
    /\ last.exc = "OSError"
    /\ last.op \in {"commit_state", "load_state", "create_branch"}
    /\ access_order # <<>>
    /\ Cardinality(DOMAIN memory_cache) < cache_size
====
